---- MODULE Spec2Model ----
(***************************************************************************)
(* MarketAnalyzer (src/market_analyzer.py): the indicator library, the     *)
(* timeframe scorer analyze_timeframe, the retrieval loop get_market_data  *)
(* and the orchestrator analyze_market.                                    *)
(*                                                                         *)
(* Numbers.  The program computes in IEEE doubles; the model computes in   *)
(* integers.  A price is a whole number of ticks, an exponential average   *)
(* is kept in fixed point with EScale units per tick (floor-rounded at     *)
(* every step), every threshold test is cross-multiplied so that it is     *)
(* decided exactly on those integers, and NaN is an explicit tag for which *)
(* every comparison is false, as in the program.  trend_strength is kept   *)
(* in tenths, so the program's 1.2 is 12 here.                             *)
(***************************************************************************)
EXTENDS Integers, Sequences, FiniteSets, TLC

None == "None"

\* ------------------------------------------------------------------ constants

TIMEFRAMES == <<1, 5, 15, 30>>

max_retries == 3

\* get_market_data(minutes = max(TIMEFRAMES) + 5)
LookbackExtra == 5

RsiPeriod == 14

BbPeriod == 20

\* Fixed-point units per tick of the exponential averages.
EScale == 1000

\* ------------------------------------------------------------------ helpers

Abs(x) == IF x < 0 THEN -x ELSE x

Min2(a, b) == IF a < b THEN a ELSE b

Max2(a, b) == IF a > b THEN a ELSE b

RECURSIVE SumSeq(_)
SumSeq(s) == IF s = <<>> THEN 0 ELSE s[1] + SumSeq(Tail(s))

RECURSIVE MaxSeq(_)
MaxSeq(s) == IF Len(s) = 1 THEN s[1] ELSE Max2(s[1], MaxSeq(Tail(s)))

\* DataFrame.tail(n): the last n rows (all of them when there are fewer).
TailN(s, n) == IF Len(s) <= n THEN s ELSE SubSeq(s, Len(s) - n + 1, Len(s))

\* A data frame: its column names and its rows; len(df) is Len(df.rows).  The
\* Python value None, where a frame is expected, is NoneFrame.
DataFrame(cols, rows) == [none |-> FALSE, columns |-> cols, rows |-> rows]

NoneFrame == [none |-> TRUE, columns |-> {}, rows |-> <<>>]

RequiredColumns == {"Open", "High", "Low", "Close"}

AllColumns == {"Open", "High", "Low", "Close", "Volume"}

\* ------------------------------------------------------------------ indicators

\* data.ewm(span=period, adjust=False).mean(): e[0] = x[0],
\* e[i] = a*x[i] + (1-a)*e[i-1] with a = 2/(period+1), on fixed-point values.
RECURSIVE EwmFrom(_, _, _, _)
EwmFrom(data, period, i, acc) ==
    IF i > Len(data) THEN acc
    ELSE EwmFrom(data, period, i + 1,
                 Append(acc, (2 * data[i] + (period - 1) * acc[i - 1]) \div (period + 1)))

calculate_ema(data, period) ==
    IF data = <<>> THEN <<>> ELSE EwmFrom(data, period, 2, <<data[1]>>)

\* delta = data.diff(): NaN at the first position; delta.where(delta > 0, 0) and
\* delta.where(delta < 0, 0) put 0 there, so the rolling means start at position
\* `period`.  Gains and losses as sums over the rolling window (the two means
\* share the divisor `period`, which cancels in rs = gain / loss).
Gain(data, j) == IF j = 1 THEN 0 ELSE Max2(data[j] - data[j - 1], 0)

Loss(data, j) == IF j = 1 THEN 0 ELSE Max2(data[j - 1] - data[j], 0)

RECURSIVE GainSum(_, _, _)
GainSum(data, lo, hi) ==
    IF lo > hi THEN 0 ELSE Gain(data, lo) + GainSum(data, lo + 1, hi)

RECURSIVE LossSum(_, _, _)
LossSum(data, lo, hi) ==
    IF lo > hi THEN 0 ELSE Loss(data, lo) + LossSum(data, lo + 1, hi)

NaN == [nan |-> TRUE, num |-> 0, den |-> 0]

\* 100 - 100/(1 + rs) as the fraction num/den = 100*gain/(gain+loss):
\* NaN before `period` samples and for gain = loss = 0 (0/0); loss = 0 with
\* gain > 0 gives rs = inf and the value 100.
calculate_rsi(data, period) ==
    [i \in 1..Len(data) |->
        IF i < period THEN NaN
        ELSE LET g == GainSum(data, i - period + 1, i)
                 l == LossSum(data, i - period + 1, i)
             IN  IF g + l = 0 THEN NaN
                 ELSE [nan |-> FALSE, num |-> 100 * g, den |-> g + l]]

RsiBelow(r, k) == ~r.nan /\ r.num < k * r.den

RsiAbove(r, k) == ~r.nan /\ r.num > k * r.den

\* macd = ewm12 - ewm26, signal = ewm9 of macd.
calculate_macd(data) ==
    LET exp1 == calculate_ema(data, 12)
        exp2 == calculate_ema(data, 26)
        macd == [i \in 1..Len(data) |-> exp1[i] - exp2[i]]
    IN  [macd |-> macd, signal |-> calculate_ema(macd, 9)]

\* sma -/+ 2*std over the rolling window (sample standard deviation).  The bands
\* at position i are kept as the window's sums of d = x[j] - x[i] and of d*d,
\* which decide `x[i] < lower` and `x[i] > upper` exactly; NaN before `period`
\* samples.
Dev(data, i, j) == data[j] - data[i]

RECURSIVE DevSum(_, _, _, _, _)
DevSum(data, i, lo, hi, sq) ==
    IF lo > hi THEN 0
    ELSE (IF sq THEN Dev(data, i, lo) * Dev(data, i, lo) ELSE Dev(data, i, lo))
         + DevSum(data, i, lo + 1, hi, sq)

calculate_bollinger_bands(data, period) ==
    [i \in 1..Len(data) |->
        IF i < period THEN [nan |-> TRUE, n |-> period, s |-> 0, q |-> 0]
        ELSE [nan |-> FALSE, n |-> period,
              s |-> DevSum(data, i, i - period + 1, i, FALSE),
              q |-> DevSum(data, i, i - period + 1, i, TRUE)]]

\* |mean(d)| > 2*std  <=>  s^2 * (n-1) > 4 * n * (n*q - s^2)
BeyondTwoStd(b) == b.s * b.s * (b.n - 1) > 4 * b.n * (b.n * b.q - b.s * b.s)

\* current_price < lower_band  <=>  0 < mean(d) - 2*std
BelowLower(b) == ~b.nan /\ b.s > 0 /\ BeyondTwoStd(b)

\* current_price > upper_band  <=>  0 > mean(d) + 2*std
AboveUpper(b) == ~b.nan /\ b.s < 0 /\ BeyondTwoStd(b)

\* ------------------------------------------------------------------ scorer

\* volume_ratio = current_volume / avg_volume if avg_volume > 0 else 1.0, and
\* its strength 3 / 2 / 1 / 0 for ratio > 1.5 / > 1.2 / > 1.0 / otherwise;
\* ratio > k/10  <=>  10 * current * n > k * sum(volume).
volume_strength(volume) ==
    LET n       == Len(volume)
        total   == SumSeq(volume)
        current == volume[n]
    IN  IF total <= 0 THEN 0
        ELSE IF 10 * current * n > 15 * total THEN 3
        ELSE IF 10 * current * n > 12 * total THEN 2
        ELSE IF 10 * current * n > 10 * total THEN 1
        ELSE 0

\* The values analyze_timeframe reads at the tail of a window (prices > 0).
Readings(close_prices, volume) ==
    LET n     == Len(close_prices)
        fixed == [i \in 1..n |-> close_prices[i] * EScale]
        m     == calculate_macd(fixed)
    IN  [ema_7           |-> calculate_ema(fixed, 7)[n],
         ema_21          |-> calculate_ema(fixed, 21)[n],
         macd            |-> m.macd[n],
         macd_prev       |-> m.macd[n - 1],
         macd_signal     |-> m.signal[n],
         rsi             |-> calculate_rsi(close_prices, RsiPeriod)[n],
         band            |-> calculate_bollinger_bands(close_prices, BbPeriod)[n],
         volume_strength |-> volume_strength(volume)]

\* ema_diff_percent = (ema_7 - ema_21) / ema_21 * 100 against +0.05 and -0.05;
\* for ema_21 > 0:  diff/ema_21*100 > 0.05  <=>  diff > ema_21/2000.
EmaSignals(r) ==
    LET diff == r.ema_7 - r.ema_21
    IN  IF diff > r.ema_21 \div 2000 THEN <<1>>
        ELSE IF -diff > r.ema_21 \div 2000 THEN <<-1>>
        ELSE <<>>

MacdSignals(r) ==
    LET macd_diff  == r.macd - r.macd_signal
        macd_trend == r.macd - r.macd_prev
    IN  IF macd_diff > 0
        THEN <<1>> \o (IF macd_trend > 0 THEN <<1>> ELSE <<>>)
        ELSE <<-1>> \o (IF macd_trend < 0 THEN <<-1>> ELSE <<>>)

RsiSignals(r) ==
    IF RsiBelow(r.rsi, 35) THEN <<2, 1>>
    ELSE IF RsiAbove(r.rsi, 65) THEN <<-2, -1>>
    ELSE IF RsiBelow(r.rsi, 45) THEN <<1>>
    ELSE IF RsiAbove(r.rsi, 55) THEN <<-1>>
    ELSE <<>>

bb_position(r) ==
    IF BelowLower(r.band) THEN "oversold"
    ELSE IF AboveUpper(r.band) THEN "overbought"
    ELSE "normal"

BbSignals(r) ==
    IF bb_position(r) = "oversold" THEN <<2>>
    ELSE IF bb_position(r) = "overbought" THEN <<-2>>
    ELSE <<>>

trend_signals(r) == EmaSignals(r) \o MacdSignals(r) \o RsiSignals(r) \o BbSignals(r)

\* trend_strength = sum(trend_signals) * (1 + volume_strength * 0.2), in tenths.
trend_strength(signals, vstrength) == SumSeq(signals) * (10 + 2 * vstrength)

\* Confidence without the cap (a defect C3 must detect).
Confidence_Unclamped(strength) == 50 + (Abs(strength) * 5) \div 10

\* confidence = min(95, max(50, 50 + abs(trend_strength) * 5)), in percent.
Confidence(strength) == Min2(95, Max2(50, 50 + (Abs(strength) * 5) \div 10))

\* The threshold test made strict, > 1.2 (a defect C2 must detect).
Signal_Strict(strength) ==
    IF Abs(strength) > 12 THEN (IF strength > 0 THEN "BUY" ELSE "SELL")
    ELSE "NEUTRAL"

\* The threshold left at the 1.5 it was lowered from (a defect C11 must detect).
Signal_OldThreshold(strength) ==
    IF Abs(strength) >= 15 THEN (IF strength > 0 THEN "BUY" ELSE "SELL")
    ELSE "NEUTRAL"

\* abs(trend_strength) >= 1.2 ? (trend_strength > 0 ? BUY : SELL) : NEUTRAL
Signal(strength) ==
    IF Abs(strength) >= 12 THEN (IF strength > 0 THEN "BUY" ELSE "SELL")
    ELSE "NEUTRAL"

\* round(last_rsi, 2), in hundredths.
RoundRsi(rsi) ==
    IF rsi.nan THEN [nan |-> TRUE, value |-> 0]
    ELSE [nan |-> FALSE, value |-> (2 * 100 * rsi.num + rsi.den) \div (2 * rsi.den)]

\* Lines 158-234: the result for a window whose tail readings are r.  The
\* reported macd stays at the fixed point's resolution.
ScoreReadings(r, minutes, price_change) ==
    LET strength == trend_strength(trend_signals(r), r.volume_strength)
    IN  [signal     |-> Signal(strength),
         change     |-> price_change,
         indicators |-> [confidence  |-> Confidence(strength),
                         expiration  |-> minutes,
                         rsi         |-> RoundRsi(r.rsi),
                         macd        |-> r.macd,
                         bb_position |-> bb_position(r)],
         error      |-> None]

\* The neutral default of the early return (error = None) and of the
\* `except Exception` handler (error = str(e)).
NeutralDefault(minutes, error) ==
    [signal     |-> "NEUTRAL",
     change     |-> 0,
     indicators |-> [confidence |-> 50, expiration |-> minutes],
     error      |-> error]

\* ((end_price - start_price) / start_price) * 100, in hundredths of a percent.
price_change(close_prices) ==
    ((close_prices[Len(close_prices)] - close_prices[1]) * 10000) \div close_prices[1]

\* The exception the try block raises on this window, or None: a missing
\* column at recent_data['Close'] / recent_data['Volume'], and macd.iloc[-2] on
\* a window of fewer than two samples.
WindowFault(df, minutes) ==
    IF "Close" \notin df.columns THEN "KeyError: 'Close'"
    ELSE IF "Volume" \notin df.columns THEN "KeyError: 'Volume'"
    ELSE IF Len(TailN(df.rows, minutes)) < 2
         THEN "IndexError: single positional indexer is out-of-bounds"
    ELSE None

\* analyze_timeframe without the length test of its early return (a defect C6
\* must detect).
analyze_timeframe_NoLengthTest(df, minutes) ==
    IF df.none THEN NeutralDefault(minutes, None)
    ELSE IF WindowFault(df, minutes) # None
         THEN NeutralDefault(minutes, WindowFault(df, minutes))
    ELSE LET recent_data  == TailN(df.rows, minutes)
             close_prices == [i \in 1..Len(recent_data) |-> recent_data[i].Close]
             volume       == [i \in 1..Len(recent_data) |-> recent_data[i].Volume]
         IN  ScoreReadings(Readings(close_prices, volume), minutes,
                           price_change(close_prices))

\* analyze_timeframe whose handler returns no error, as the early return does
\* (a defect C12 must detect).
analyze_timeframe_ErrorDropped(df, minutes) ==
    IF df.none \/ Len(df.rows) < minutes THEN NeutralDefault(minutes, None)
    ELSE IF WindowFault(df, minutes) # None
         THEN NeutralDefault(minutes, None)
    ELSE LET recent_data  == TailN(df.rows, minutes)
             close_prices == [i \in 1..Len(recent_data) |-> recent_data[i].Close]
             volume       == [i \in 1..Len(recent_data) |-> recent_data[i].Volume]
         IN  ScoreReadings(Readings(close_prices, volume), minutes,
                           price_change(close_prices))

\* Lines 124-238: the early return, the handler's default for a window that
\* raises, and otherwise the scoring of the window's readings.
analyze_timeframe(df, minutes) ==
    IF df.none \/ Len(df.rows) < minutes THEN NeutralDefault(minutes, None)
    ELSE IF WindowFault(df, minutes) # None
         THEN NeutralDefault(minutes, WindowFault(df, minutes))
    ELSE LET recent_data  == TailN(df.rows, minutes)
             close_prices == [i \in 1..Len(recent_data) |-> recent_data[i].Close]
             volume       == [i \in 1..Len(recent_data) |-> recent_data[i].Volume]
         IN  ScoreReadings(Readings(close_prices, volume), minutes,
                           price_change(close_prices))

\* ------------------------------------------------------------------ inputs

\* Largest number of rows of a frame handed to analyze_timeframe directly.
MaxLen == 35

\* Largest number of 5-minute bars one fetch returns.
MaxBars == 9

\* Prices in ticks: the first sample of a series.
BasePrice == 10000

BaseVolume == 1000

\* 0.1% of a price, to the nearest tick.
PerMille(p) == (p + 500) \div 1000

RECURSIVE Compound(_, _, _)
Compound(p, k, up) ==
    IF k = 0 THEN p
    ELSE Compound(IF up THEN p + PerMille(p) ELSE p - PerMille(p), k - 1, up)

Shapes == {"flat", "up", "down", "zigzag"}

\* flat: the same close on every sample; up / down: each sample 0.1% above /
\* below the one before; zigzag: alternating between two closes, no drift.
Closes(shape, n, base) ==
    [i \in 1..n |->
        CASE shape = "flat"   -> base
          [] shape = "up"     -> Compound(base, i - 1, TRUE)
          [] shape = "down"   -> Compound(base, i - 1, FALSE)
          [] shape = "zigzag" -> IF i % 2 = 1 THEN base ELSE base + PerMille(base)]

VolumePatterns == {"flat", "spike", "uptick", "zero"}

Volumes(pattern, n, v) ==
    [i \in 1..n |->
        CASE pattern = "flat"   -> v
          [] pattern = "spike"  -> IF i = n THEN 2 * v ELSE v
          [] pattern = "uptick" -> IF i = n THEN v + v \div 10 ELSE v
          [] pattern = "zero"   -> 0]

Rows(shape, pattern, n, base) ==
    [i \in 1..n |-> [Close  |-> Closes(shape, n, base)[i],
                     Volume |-> Volumes(pattern, n, BaseVolume)[i]]]

Lengths == {0, 1, 2, 5, RsiPeriod, 15, BbPeriod, 30, MaxLen}

Bases == {BasePrice, 2 * BasePrice}

\* Frames a caller hands to analyze_timeframe: every shape at every length, with
\* both columns, and two frames that lack a column.
Frames ==
    {NoneFrame}
    \cup {DataFrame(AllColumns, Rows(sh, vp, n, b)) :
             sh \in Shapes, vp \in VolumePatterns, n \in Lengths, b \in Bases}
    \cup {DataFrame(AllColumns \ {c}, Rows("up", "flat", 5, BasePrice)) :
             c \in {"Close", "Volume"}}

Minutes == {1, 2, 5, RsiPeriod, 15, BbPeriod, 30}

\* Readings handed to the scorer's rules at their thresholds: the two averages
\* 0.05% apart and one unit either side of it, macd level with, above or below
\* its signal and its previous value, the RSI at and next to 35, 45, 55 and 65,
\* the close outside or inside the bands, and each volume strength.
EmaBase == 2000000

RsiValue(k) == [nan |-> FALSE, num |-> k, den |-> 1]

Band(s, q) == [nan |-> FALSE, n |-> BbPeriod, s |-> s, q |-> q]

ReadingSet ==
    [ema_21          : {EmaBase},
     ema_7           : {EmaBase + d : d \in {-1001, -1000, 0, 1000, 1001}},
     macd            : {0},
     macd_signal     : {-1, 0, 1},
     macd_prev       : {-1, 0, 1},
     rsi             : {NaN} \cup {RsiValue(k) : k \in {34, 35, 44, 45, 55, 56, 65, 66}},
     band            : {Band(BbPeriod, BbPeriod), Band(0, 0), Band(-BbPeriod, BbPeriod)},
     volume_strength : 0..3]

\* The 5-minute bars one call of ticker.history returns.
Bars == {0, 1, MaxBars - 2, MaxBars - 1, MaxBars}

Fetched ==
    {DataFrame(cols, Rows(sh, vp, n, BasePrice)) :
             sh \in Shapes, vp \in {"flat", "spike"}, n \in Bars,
             cols \in {AllColumns, AllColumns \ {"Volume"}}}
    \cup {DataFrame(AllColumns \ {"Close"}, Rows("flat", "flat", MaxBars, BasePrice))}

\* What a retrieval other than this class's get_market_data may hand to
\* analyze_market (self.get_market_data is looked up on the instance).
Substitutes ==
    {NoneFrame, DataFrame(AllColumns, <<>>),
     DataFrame(AllColumns, Rows("down", "flat", 10, BasePrice)),
     DataFrame(AllColumns \ {"Close"}, Rows("up", "flat", MaxLen, BasePrice)),
     DataFrame(AllColumns \ {"Volume"}, Rows("up", "flat", MaxLen, BasePrice))}

ErrorTags == {"NO_DATA", "TIMEOUT_ERROR", "GENERAL_ERROR"}

\* ------------------------------------------------------------------ state

VARIABLES
    pc,                  \* where the call is: "idle", "tf_returned", "fetch",
                         \* "retrieved", "loop", "returned"
    tf_call,             \* analyze_timeframe called directly: its arguments
    tf_ret,              \* ... and what it returned
    via,                 \* which retrieval analyze_market ran
    attempt,             \* get_market_data: the loop variable
    outcomes,            \* get_market_data: how each attempt so far ended
    df,                  \* analyze_market: df
    error_message,       \* analyze_market: error_message
    current_price,       \* analyze_market: current_price
    timeframe_analysis,  \* analyze_market: timeframe_analysis
    idx,                 \* analyze_market: position of the loop in TIMEFRAMES
    logged,              \* analyze_market: the per-window errors it logged
    raised,              \* analyze_market: the exception its handler caught
    result               \* analyze_market: what it returned

vars == <<pc, tf_call, tf_ret, via, attempt, outcomes, df, error_message,
          current_price, timeframe_analysis, idx, logged, raised, result>>

tf_vars == <<tf_call, tf_ret>>

market_vars == <<via, attempt, outcomes, df, error_message, current_price,
                 timeframe_analysis, idx, logged, raised, result>>

\* No call made yet, nothing returned yet.
Unset == [unset |-> TRUE]

Init ==
    /\ pc = "idle"
    /\ tf_call = Unset
    /\ tf_ret = Unset
    /\ via = None
    /\ attempt = 0
    /\ outcomes = <<>>
    /\ df = NoneFrame
    /\ error_message = None
    /\ current_price = 0
    /\ timeframe_analysis = <<>>
    /\ idx = 1
    /\ logged = {}
    /\ raised = None
    /\ result = Unset

\* ------------------------------------------------------------------ analyze_timeframe, called directly

CallAnalyzeTimeframe(frame, minutes) ==
    /\ pc = "idle"
    /\ tf_call' = [df |-> frame, minutes |-> minutes]
    /\ tf_ret' = analyze_timeframe(frame, minutes)
    /\ pc' = "tf_returned"
    /\ UNCHANGED market_vars

\* The scoring part of analyze_timeframe on a window given by its tail readings.
ScoreWindow(r, minutes) ==
    /\ pc = "idle"
    /\ tf_call' = [readings |-> r, minutes |-> minutes]
    /\ tf_ret' = ScoreReadings(r, minutes, 0)
    /\ pc' = "scored"
    /\ UNCHANGED market_vars

\* ------------------------------------------------------------------ get_market_data

\* analyze_market asks for max(TIMEFRAMES) + 5 minutes.
FetchMinutes == MaxSeq(TIMEFRAMES) + LookbackExtra

\* df.resample('1min').interpolate(method='time') on bars five minutes apart:
\* four interpolated rows between each two bars.
Interpolate(a, b, k) == a + ((b - a) * k) \div 5

Resample(rows) ==
    IF rows = <<>> THEN <<>>
    ELSE [i \in 1..(5 * (Len(rows) - 1) + 1) |->
            LET j == (i - 1) \div 5 + 1
                k == (i - 1) % 5
            IN  IF k = 0 THEN rows[j]
                ELSE [Close  |-> Interpolate(rows[j].Close, rows[j + 1].Close, k),
                      Volume |-> Interpolate(rows[j].Volume, rows[j + 1].Volume, k)]]

\* df['Volume'] = 1.0 when the column is missing.
WithVolume(frame) ==
    IF "Volume" \in frame.columns THEN frame
    ELSE DataFrame(frame.columns \cup {"Volume"},
                   [i \in 1..Len(frame.rows) |-> [Close |-> frame.rows[i].Close, Volume |-> 1]])

\* How the attempt that fetched `frame` ends: in the order of the code's tests.
Outcome(frame, minutes) ==
    IF frame.rows = <<>> THEN "empty"
    ELSE IF ~(RequiredColumns \subseteq WithVolume(frame).columns) THEN "missing"
    ELSE IF Len(Resample(frame.rows)) < minutes THEN "few"
    ELSE "ok"

\* return df.tail(minutes), None
Prepared(frame, minutes) ==
    DataFrame(WithVolume(frame).columns, TailN(Resample(WithVolume(frame).rows), minutes))

\* Every failed retrieval reported as a timeout (a defect C10 must detect).
ErrorOf_AlwaysTimeout(outcome) == "TIMEOUT_ERROR"

\* The error an attempt that did not succeed returns when it does not retry.
ErrorOf(outcome) == IF outcome = "raised" THEN "TIMEOUT_ERROR" ELSE "NO_DATA"

\* One pass of the retry loop that ends with `outcome`: a retry (continue) while
\* attempts remain, unless the required columns are missing; otherwise return.
EndAttempt(outcome, frame) ==
    /\ outcomes' = Append(outcomes, outcome)
    /\ IF outcome = "ok"
       THEN /\ df' = Prepared(frame, FetchMinutes)
            /\ error_message' = None
            /\ pc' = "retrieved"
            /\ UNCHANGED attempt
       ELSE IF outcome # "missing" /\ attempt < max_retries - 1
       THEN /\ attempt' = attempt + 1
            /\ UNCHANGED <<pc, df, error_message>>
       ELSE /\ df' = NoneFrame
            /\ error_message' = ErrorOf(outcome)
            /\ pc' = "retrieved"
            /\ UNCHANGED attempt
    /\ UNCHANGED <<tf_vars, via, current_price, timeframe_analysis, idx, logged,
                   raised, result>>

AttemptFetches(frame) ==
    /\ pc = "fetch"
    /\ attempt < max_retries
    /\ EndAttempt(Outcome(frame, FetchMinutes), frame)

AttemptRaises ==
    /\ pc = "fetch"
    /\ attempt < max_retries
    /\ EndAttempt("raised", NoneFrame)

\* The outer handler: an exception outside the attempts' own try.
CriticalError ==
    /\ pc = "fetch"
    /\ df' = NoneFrame
    /\ error_message' = "GENERAL_ERROR"
    /\ pc' = "retrieved"
    /\ UNCHANGED <<tf_vars, via, attempt, outcomes, current_price,
                   timeframe_analysis, idx, logged, raised, result>>

\* ------------------------------------------------------------------ analyze_market

AnalyzeMarket ==
    /\ pc = "idle"
    /\ pc' = "fetch"
    /\ via' = "get_market_data"
    /\ UNCHANGED <<tf_vars, attempt, outcomes, df, error_message, current_price,
                   timeframe_analysis, idx, logged, raised, result>>

AnalyzeMarketSubstitute(frame, error) ==
    /\ pc = "idle"
    /\ pc' = "retrieved"
    /\ via' = "substitute"
    /\ df' = frame
    /\ error_message' = error
    /\ UNCHANGED <<tf_vars, attempt, outcomes, current_price,
                   timeframe_analysis, idx, logged, raised, result>>

Return(value) ==
    /\ result' = value
    /\ pc' = "returned"
    /\ UNCHANGED raised

\* except Exception as e: return {'error': GENERAL_ERROR}
Handle(e) ==
    /\ raised' = e
    /\ result' = [error |-> "GENERAL_ERROR"]
    /\ pc' = "returned"

\* An exception that no line of analyze_market accounts for.
Unexpected == "Exception"

\* CheckRetrieval without the test for a missing or empty frame, so that
\* df['Close'] raises (a defect C7 must detect).
CheckRetrieval_NoEmptyTest ==
    /\ pc = "retrieved"
    /\ IF error_message # None
       THEN Return([error |-> error_message]) /\ UNCHANGED current_price
       ELSE IF df.none \/ df.rows = <<>> \/ df.columns = {}
       THEN Handle("TypeError: 'NoneType' object is not subscriptable")
            /\ UNCHANGED current_price
       ELSE IF "Close" \notin df.columns
       THEN Handle("KeyError: 'Close'") /\ UNCHANGED current_price
       ELSE /\ current_price' = df.rows[Len(df.rows)].Close
            /\ pc' = "loop"
            /\ UNCHANGED <<raised, result>>
    /\ UNCHANGED <<tf_vars, via, attempt, outcomes, df, error_message,
                   timeframe_analysis, idx, logged>>

\* Lines 245-254: the error passed on, NO_DATA for no data, else the latest
\* close; df['Close'] on a frame without the column raises into the handler.
CheckRetrieval ==
    /\ pc = "retrieved"
    /\ IF error_message # None
       THEN Return([error |-> error_message]) /\ UNCHANGED current_price
       ELSE IF df.none \/ df.rows = <<>> \/ df.columns = {}
       THEN Return([error |-> "NO_DATA"]) /\ UNCHANGED current_price
       ELSE IF "Close" \notin df.columns
       THEN Handle("KeyError: 'Close'") /\ UNCHANGED current_price
       ELSE /\ current_price' = df.rows[Len(df.rows)].Close
            /\ pc' = "loop"
            /\ UNCHANGED <<raised, result>>
    /\ UNCHANGED <<tf_vars, via, attempt, outcomes, df, error_message,
                   timeframe_analysis, idx, logged>>

Put(f, k, v) == [x \in DOMAIN f \cup {k} |-> IF x = k THEN v ELSE f[x]]

Entry(r) == [signal |-> r.signal, change |-> r.change, indicators |-> r.indicators]

\* A window's exception not kept inside analyze_timeframe, reaching
\* analyze_market's handler (a defect C4 must detect).
AnalyzeWindow_Propagates ==
    /\ pc = "loop"
    /\ idx <= Len(TIMEFRAMES)
    /\ LET minutes == TIMEFRAMES[idx]
           r       == analyze_timeframe(df, minutes)
       IN  IF r.error # None
           THEN /\ Handle(r.error)
                /\ UNCHANGED <<timeframe_analysis, idx, logged>>
           ELSE /\ timeframe_analysis' = Put(timeframe_analysis, minutes, Entry(r))
                /\ idx' = idx + 1
                /\ UNCHANGED <<pc, logged, raised, result>>
    /\ UNCHANGED <<tf_vars, via, attempt, outcomes, df, error_message, current_price>>

\* One pass of `for minutes in TIMEFRAMES`.
AnalyzeWindow ==
    /\ pc = "loop"
    /\ idx <= Len(TIMEFRAMES)
    /\ LET minutes == TIMEFRAMES[idx]
           r       == analyze_timeframe(df, minutes)
       IN  /\ logged' = IF r.error # None
                        THEN logged \cup {[minutes |-> minutes, error |-> r.error]}
                        ELSE logged
           /\ timeframe_analysis' = Put(timeframe_analysis, minutes, Entry(r))
    /\ idx' = idx + 1
    /\ UNCHANGED <<pc, tf_vars, via, attempt, outcomes, df, error_message,
                   current_price, raised, result>>

ReturnAnalysis ==
    /\ pc = "loop"
    /\ idx > Len(TIMEFRAMES)
    /\ Return([current_price |-> current_price,
               timeframes    |-> timeframe_analysis,
               timestamp     |-> "now"])
    /\ UNCHANGED <<tf_vars, via, attempt, outcomes, df, error_message,
                   current_price, timeframe_analysis, idx, logged>>

\* The handler returning what the loop had collected along with the error (a
\* defect C5 must detect).
OrchestratorFault_Partial ==
    /\ pc \in {"retrieved", "loop"}
    /\ raised' = Unexpected
    /\ result' = [error |-> "GENERAL_ERROR", timeframes |-> timeframe_analysis]
    /\ pc' = "returned"
    /\ UNCHANGED <<tf_vars, via, attempt, outcomes, df, error_message,
                   current_price, timeframe_analysis, idx, logged>>

\* Lines 276-278: any exception raised in analyze_market's own try.
OrchestratorFault ==
    /\ pc \in {"retrieved", "loop"}
    /\ Handle(Unexpected)
    /\ UNCHANGED <<tf_vars, via, attempt, outcomes, df, error_message,
                   current_price, timeframe_analysis, idx, logged>>

\* ------------------------------------------------------------------ specification

Next ==
    \/ \E frame \in Frames, minutes \in Minutes : CallAnalyzeTimeframe(frame, minutes)
    \/ \E r \in ReadingSet, minutes \in {5} : ScoreWindow(r, minutes)
    \/ AnalyzeMarket
    \/ \E frame \in Substitutes, error \in ErrorTags \cup {None} :
          AnalyzeMarketSubstitute(frame, error)
    \/ \E frame \in Fetched : AttemptFetches(frame)
    \/ AttemptRaises
    \/ CriticalError
    \/ CheckRetrieval
    \/ AnalyzeWindow
    \/ ReturnAnalysis
    \/ OrchestratorFault

Spec == Init /\ [][Next]_vars

\* ------------------------------------------------------------------ properties

\* The direct call's window, and what the scorer read from it.
Sufficient == ~tf_call.df.none /\ Len(tf_call.df.rows) >= tf_call.minutes

CallWindow == TailN(tf_call.df.rows, tf_call.minutes)

CallCloses == [i \in 1..Len(CallWindow) |-> CallWindow[i].Close]

CallVolumes == [i \in 1..Len(CallWindow) |-> CallWindow[i].Volume]

HasBothColumns == {"Close", "Volume"} \subseteq tf_call.df.columns

\* The call went through the scoring rules (no early return, no exception).
ScoredCall ==
    \/ pc = "scored"
    \/ /\ pc = "tf_returned"
       /\ Sufficient
       /\ WindowFault(tf_call.df, tf_call.minutes) = None

CallReadings ==
    IF pc = "scored" THEN tf_call.readings ELSE Readings(CallCloses, CallVolumes)

SignalSum == SumSeq(trend_signals(CallReadings))

\* trend_strength in tenths: sum * (1 + 0.2 * volume_strength) * 10
Strength10 == SignalSum * (10 + 2 * CallReadings.volume_strength)

ConstantWindow ==
    /\ Sufficient
    /\ HasBothColumns
    /\ \A i \in 1..Len(CallWindow) : CallWindow[i] = CallWindow[1]

\* C1 (as claimed): on a window whose samples are all identical (one close, one
\* volume), analyze_timeframe returns NEUTRAL with confidence exactly 50.
C1_ConstantWindowNeutral50 ==
    (pc = "tf_returned" /\ ConstantWindow)
        => (tf_ret.signal = "NEUTRAL" /\ tf_ret.indicators.confidence = 50)

\* C2: on the scoring path the signal is BUY iff trend_strength >= 1.2, SELL
\* iff trend_strength <= -1.2 and NEUTRAL iff |trend_strength| < 1.2; a signal
\* sum of magnitude 1 is non-NEUTRAL with volume_strength 1 (strength exactly
\* 1.2) and NEUTRAL with volume_strength 0 (strength 1.0).
C2_SignalAtThreshold ==
    ScoredCall =>
        /\ (tf_ret.signal = "BUY") <=> (Strength10 >= 12)
        /\ (tf_ret.signal = "SELL") <=> (Strength10 <= -12)
        /\ (tf_ret.signal = "NEUTRAL") <=> (Abs(Strength10) < 12)
        /\ (Abs(SignalSum) = 1 /\ CallReadings.volume_strength = 1)
              => tf_ret.signal # "NEUTRAL"
        /\ (Abs(SignalSum) = 1 /\ CallReadings.volume_strength = 0)
              => tf_ret.signal = "NEUTRAL"

\* A window scored from its samples with signal sum -1 and volume_strength 1:
\* strength exactly -1.2, and the result SELL.
C2_Witness ==
    /\ pc = "tf_returned"
    /\ ScoredCall
    /\ SignalSum = -1
    /\ CallReadings.volume_strength = 1
    /\ tf_ret.signal = "SELL"

\* C3: the confidence of every result of analyze_timeframe is within [50, 95]:
\* the early return, the scoring of any readings, the handler's default, and
\* so every entry analyze_market records.
C3_ConfidenceInRange ==
    /\ pc \in {"scored", "tf_returned"} => tf_ret.indicators.confidence \in 50..95
    /\ \A m \in DOMAIN timeframe_analysis :
          timeframe_analysis[m].indicators.confidence \in 50..95

\* Readings whose strength would put the confidence above 95, capped at 95.
C3_Witness ==
    /\ pc = "scored"
    /\ 50 + (Abs(Strength10) * 5) \div 10 > 95
    /\ tf_ret.indicators.confidence = 95

\* What analyze_market got from the retrieval lets it reach the loop.
RetrievalUsable ==
    /\ error_message = None
    /\ ~df.none
    /\ df.rows # <<>>
    /\ "Close" \in df.columns

TimeframeSet == {TIMEFRAMES[i] : i \in 1..Len(TIMEFRAMES)}

\* The scorer raised (and caught) an exception on the window of m minutes.
WindowFaulted(m) == Len(df.rows) >= m /\ WindowFault(df, m) # None

IsSuccess(r) == DOMAIN r = {"current_price", "timeframes", "timestamp"}

\* C4: when a window's scoring faults during analyze_market (and nothing else
\* goes wrong), the call returns a success result with an entry for each of
\* the windows 1, 5, 15, 30: NEUTRAL, change 0, confidence 50 for a faulted
\* window, and for every other window what scoring that window alone gives.
C4_WindowFaultKeepsOthers ==
    (/\ pc = "returned"
     /\ RetrievalUsable
     /\ raised # Unexpected
     /\ \E m \in TimeframeSet : WindowFaulted(m))
        => /\ IsSuccess(result)
           /\ DOMAIN result.timeframes = TimeframeSet
           /\ \A m \in TimeframeSet :
                 IF WindowFaulted(m)
                 THEN /\ result.timeframes[m].signal = "NEUTRAL"
                      /\ result.timeframes[m].change = 0
                      /\ result.timeframes[m].indicators.confidence = 50
                 ELSE result.timeframes[m] = Entry(analyze_timeframe(df, m))

\* get_market_data's frame: the one-sample window faulted and was logged, and
\* another window of the same result is not neutral.
C4_Witness ==
    /\ pc = "returned"
    /\ via = "get_market_data"
    /\ IsSuccess(result)
    /\ \E l \in logged : l.minutes = 1
    /\ result.timeframes[1].signal = "NEUTRAL"
    /\ \E m \in TimeframeSet : result.timeframes[m].signal # "NEUTRAL"

\* C5: analyze_market ends in a return, whatever the retrieval gave and
\* wherever an exception was raised: either exactly {error: tag} with tag one
\* of NO_DATA, TIMEOUT_ERROR, GENERAL_ERROR, or a complete result (current
\* price, an entry for every configured window, timestamp); an exception at
\* the orchestrator's level gives exactly {error: GENERAL_ERROR}.
C5_NoFaultEscapes ==
    /\ pc \in {"idle", "tf_returned", "scored", "fetch", "retrieved", "loop", "returned"}
    /\ pc = "returned" =>
          \/ /\ DOMAIN result = {"error"}
             /\ result.error \in ErrorTags
          \/ /\ IsSuccess(result)
             /\ DOMAIN result.timeframes = TimeframeSet
    /\ (pc = "returned" /\ raised # None) => result = [error |-> "GENERAL_ERROR"]
    /\ raised # None => pc = "returned"

\* An exception raised after some windows were scored: only the error is returned.
C5_Witness ==
    /\ pc = "returned"
    /\ raised = Unexpected
    /\ DOMAIN timeframe_analysis # {}
    /\ result = [error |-> "GENERAL_ERROR"]

\* C6: for a frame that is None or shorter than `minutes`, analyze_timeframe
\* returns NEUTRAL, change 0, {confidence: 50, expiration: minutes} and no
\* error: nothing else is in the indicators, and no exception was caught.
C6_ShortFrameNeutralDefault ==
    (pc = "tf_returned" /\ ~Sufficient)
        => tf_ret = [signal     |-> "NEUTRAL",
                     change     |-> 0,
                     indicators |-> [confidence |-> 50, expiration |-> tf_call.minutes],
                     error      |-> None]

\* A frame with rows, but fewer than the minutes asked for.
C6_Witness ==
    /\ pc = "tf_returned"
    /\ ~tf_call.df.none
    /\ Len(tf_call.df.rows) > 0
    /\ Len(tf_call.df.rows) < tf_call.minutes
    /\ tf_ret.signal = "NEUTRAL"
    /\ tf_ret.error = None

\* C7: when the retrieval reports no error and its frame is None or empty
\* (and no unrelated exception is raised), analyze_market returns
\* {error: NO_DATA} and has scored no window.
C7_NoDataForEmptyFrame ==
    (/\ pc = "returned"
     /\ error_message = None
     /\ (df.none \/ df.rows = <<>>)
     /\ raised # Unexpected)
        => /\ result = [error |-> "NO_DATA"]
           /\ DOMAIN timeframe_analysis = {}
           /\ logged = {}
           /\ idx = 1

\* The retrieval handed over an empty frame and no error.
C7_Witness ==
    /\ pc = "returned"
    /\ error_message = None
    /\ ~df.none
    /\ df.rows = <<>>
    /\ result = [error |-> "NO_DATA"]

\* Thirty samples, each close 0.1% above the one before, the last volume twice
\* the volume of every other sample.
RisingSpikeWindow ==
    /\ Sufficient
    /\ HasBothColumns
    /\ Len(CallWindow) = 30
    /\ \A i \in 2..30 : CallCloses[i] = CallCloses[i - 1] + PerMille(CallCloses[i - 1])
    /\ CallVolumes[1] > 0
    /\ \A i \in 1..29 : CallVolumes[i] = CallVolumes[1]
    /\ CallVolumes[30] = 2 * CallVolumes[1]

\* C8 (as claimed): on a 30-sample window rising 0.1% a step whose last volume
\* is twice the others, volume_strength is 3 and analyze_timeframe returns BUY
\* with confidence above 50.
C8_RisingSpikeIsBuy ==
    (pc = "tf_returned" /\ RisingSpikeWindow)
        => /\ CallReadings.volume_strength = 3
           /\ tf_ret.signal = "BUY"
           /\ tf_ret.indicators.confidence > 50

\* At least two samples, every close below the one before, one (positive)
\* volume throughout.
FallingFlatWindow ==
    /\ Sufficient
    /\ HasBothColumns
    /\ Len(CallWindow) >= 2
    /\ \A i \in 2..Len(CallWindow) : CallCloses[i] < CallCloses[i - 1]
    /\ CallVolumes[1] > 0
    /\ \A i \in 1..Len(CallWindow) : CallVolumes[i] = CallVolumes[1]

\* C9 (as claimed): on a window of strictly decreasing closes and flat volume,
\* analyze_timeframe returns SELL.
C9_FallingFlatIsSell ==
    (pc = "tf_returned" /\ FallingFlatWindow) => tf_ret.signal = "SELL"

\* An attempt that failed in a way the loop retries.
Retried == {"raised", "empty", "few"}

LastOutcome == outcomes[Len(outcomes)]

\* What holds of get_market_data's loop and of its return in every state.
RetrievalInvariant ==
    /\ attempt \in 0..(max_retries - 1)
    /\ Len(outcomes) <= max_retries
    /\ (via = "get_market_data" /\ pc = "fetch") =>
          /\ Len(outcomes) = attempt
          /\ \A i \in 1..Len(outcomes) : outcomes[i] \in Retried
    /\ (via = "get_market_data" /\ pc \in {"retrieved", "loop", "returned"}) =>
          /\ \/ ~df.none /\ error_message = None
             \/ df.none /\ error_message \in ErrorTags
          /\ \A i \in 1..(Len(outcomes) - 1) : outcomes[i] \in Retried
          /\ error_message = None => (outcomes # <<>> /\ LastOutcome = "ok")
          /\ error_message = "TIMEOUT_ERROR" =>
                (Len(outcomes) = max_retries /\ LastOutcome = "raised")
          /\ error_message = "NO_DATA" =>
                \/ LastOutcome = "missing"
                \/ Len(outcomes) = max_retries /\ LastOutcome \in {"empty", "few"}
          /\ (outcomes # <<>> /\ error_message # "GENERAL_ERROR") =>
                \/ LastOutcome \in {"ok", "missing"}
                \/ Len(outcomes) = max_retries
    /\ (pc = "returned" /\ error_message # None /\ raised # Unexpected) =>
          result = [error |-> error_message]

\* C10: get_market_data makes at most 3 attempts (every pass of its loop
\* either returns or uses up one of them) and returns, with either a
\* frame and no error or no frame and an error tag; TIMEOUT_ERROR only when
\* the third attempt raised after two attempts that failed; a failed first or
\* second attempt is followed by another attempt unless the required columns
\* are missing (NO_DATA at once); and analyze_market returns the error tag it
\* was given.
C10_RetrievalRetriesAndReturns ==
    /\ []RetrievalInvariant
    /\ [][pc = "fetch" =>
            \/ pc' = "retrieved"
            \/ pc' = "fetch" /\ attempt' = attempt + 1 /\ attempt' < max_retries]_vars

\* Three attempts, the third raised: TIMEOUT_ERROR, returned by analyze_market.
C10_Witness ==
    /\ pc = "returned"
    /\ via = "get_market_data"
    /\ Len(outcomes) = max_retries
    /\ LastOutcome = "raised"
    /\ outcomes[1] = "empty"
    /\ result = [error |-> "TIMEOUT_ERROR"]

\* C11: in every result of analyze_timeframe, and so in every entry
\* analyze_market records, a BUY or SELL has confidence >= 56 and a NEUTRAL has
\* confidence 50 or 55; on the scoring path the confidence is 55 exactly when
\* the signal sum has magnitude 1 and volume_strength is 0; and the confidence
\* is 50 exactly when trend_strength is 0 or the result is a default (the early
\* return or the handler's).
C11_SignalConfidenceConsistent ==
    /\ pc \in {"scored", "tf_returned"} =>
          /\ tf_ret.signal \in {"BUY", "SELL"} => tf_ret.indicators.confidence >= 56
          /\ tf_ret.signal = "NEUTRAL" => tf_ret.indicators.confidence \in {50, 55}
          /\ ScoredCall =>
                ((tf_ret.indicators.confidence = 55)
                    <=> (Abs(SignalSum) = 1 /\ CallReadings.volume_strength = 0))
          /\ (tf_ret.indicators.confidence = 50) <=> (~ScoredCall \/ Strength10 = 0)
    /\ \A m \in DOMAIN timeframe_analysis :
          /\ timeframe_analysis[m].signal \in {"BUY", "SELL"}
                => timeframe_analysis[m].indicators.confidence >= 56
          /\ timeframe_analysis[m].signal = "NEUTRAL"
                => timeframe_analysis[m].indicators.confidence \in {50, 55}

\* A window scored from its samples with signal sum of magnitude 1 and
\* volume_strength 0: NEUTRAL with confidence 55.
C11_Witness ==
    /\ pc = "tf_returned"
    /\ ScoredCall
    /\ Abs(SignalSum) = 1
    /\ CallReadings.volume_strength = 0
    /\ tf_ret.signal = "NEUTRAL"
    /\ tf_ret.indicators.confidence = 55

\* C12: analyze_timeframe called with minutes = 1 on a frame of at least one
\* row always ends in its handler and returns NEUTRAL, change 0,
\* {confidence: 50, expiration: 1} and an error that is not None; and in every
\* success result of analyze_market the entry of window 1 is NEUTRAL with
\* change 0 and confidence 50, and its error was logged.
C12_OneMinuteWindowFaults ==
    /\ (/\ pc = "tf_returned"
        /\ tf_call.minutes = 1
        /\ ~tf_call.df.none
        /\ Len(tf_call.df.rows) >= 1)
          => /\ tf_ret.signal = "NEUTRAL"
             /\ tf_ret.change = 0
             /\ tf_ret.indicators = [confidence |-> 50, expiration |-> 1]
             /\ tf_ret.error # None
    /\ (pc = "returned" /\ IsSuccess(result))
          => /\ result.timeframes[1].signal = "NEUTRAL"
             /\ result.timeframes[1].change = 0
             /\ result.timeframes[1].indicators = [confidence |-> 50, expiration |-> 1]
             /\ \E l \in logged : l.minutes = 1 /\ l.error # None

\* minutes = 1 on a frame of several rows with both columns, whose closes
\* differ: the one-sample window has no macd.iloc[-2].
C12_Witness ==
    /\ pc = "tf_returned"
    /\ tf_call.minutes = 1
    /\ ~tf_call.df.none
    /\ HasBothColumns
    /\ Len(tf_call.df.rows) > 1
    /\ tf_call.df.rows[1].Close # tf_call.df.rows[Len(tf_call.df.rows)].Close
    /\ tf_ret.error = "IndexError: single positional indexer is out-of-bounds"
    /\ tf_ret.indicators.confidence = 50

====
